---- MODULE Spec2Model ----
(***************************************************************************)
(* Model of src/app.py, a Streamlit dashboard script over a CSV of sales   *)
(* records.  One script run is: load_data() (memoised by st.cache_data),   *)
(* the sidebar filters, the KPIs, the five tabs.  Every user interaction   *)
(* re-runs the script from the top.                                        *)
(*                                                                         *)
(* Encodings.  A date is a day ordinal, day 0 being Monday 2024-01-01.     *)
(* A categorical string is a natural number, ordered as the strings are;   *)
(* for the column "Region" an even number is a spelling in canonical form  *)
(* and the odd number after it is a case/whitespace variant of it.  A      *)
(* quotient is a reduced fraction [num, den]; den = 0 is inf or NaN.       *)
(***************************************************************************)
EXTENDS Integers, Sequences, FiniteSets, TLC

VARIABLES
    source_kind,       \* what pd.read_csv meets on disk
    cache,             \* the st.cache_data entry of load_data
    df,                \* the module-level df of the current run
    messages,          \* st.error / st.warning elements emitted in the current run
    date_range,        \* value of the date_input widget
    selected_filters,  \* key -> value of the multiselect widget
    df_filtered,       \* the filtered frame
    kpis,              \* the five metrics
    tabs,              \* the frames built by the five tabs
    rank,              \* argument and result of one nlargest call
    pc                 \* position of the script run

vars == <<source_kind, cache, df, messages, date_range, selected_filters,
          df_filtered, kpis, tabs, rank, pc>>

(* An optional value: None, or Some(x) whose value is Val(o) *)
None == <<>>

Some(x) == <<x>>

Val(o) == o[1]

NoExc == "-"

----------------------------------------------------------------------------
(* Bounds of the model *)

(* rows of the CSV file *)
MaxRows == 2

(* rows of a view handed to the KPI step alone *)
MaxKpiRows == 2

(* rows of a view handed to the tabs alone, and the days its dates span *)
MaxTrendRows == 2

TrendStart == 362

MaxSpan == 6

(* groups of a frame handed to nlargest alone, and the n asked for *)
MaxGroups == 3

MaxN == 2

----------------------------------------------------------------------------
(* Generic helpers standing for Python / pandas built-ins *)

Range(s) == {s[i] : i \in 1..Len(s)}

SetMin(S) == CHOOSE x \in S : \A y \in S : x <= y

SetMax(S) == CHOOSE x \in S : \A y \in S : x >= y

RECURSIVE SortedSeq(_)
SortedSeq(S) == IF S = {} THEN <<>>
                ELSE LET m == SetMin(S) IN <<m>> \o SortedSeq(S \ {m})

RECURSIVE SumCol(_, _)
SumCol(rows, col) == IF rows = <<>> THEN 0
                     ELSE Head(rows)[col] + SumCol(Tail(rows), col)

RECURSIVE Gcd(_, _)
Gcd(a, b) == IF b = 0 THEN a ELSE Gcd(b, a % b)

(* Python's a / b on numpy scalars *)
TrueDiv(a, b) == IF b = 0 THEN [num |-> a, den |-> 0]
                 ELSE LET g == Gcd(a, b) IN
                      IF g = 0 THEN [num |-> 0, den |-> 1]
                      ELSE [num |-> a \div g, den |-> b \div g]

SeqsUpTo(S, n) == UNION {[1..k -> S] : k \in 0..n}

----------------------------------------------------------------------------
(* The table *)

(* filters.keys(), in the dict's order *)
Keys == <<"Region", "Producto", "Canal", "Categoria", "Laboratorio", "Vendedor">>

Row(f, r, p, c, g, l, v, s, u, i) ==
    [Fecha |-> f, Region |-> r, Producto |-> p, Canal |-> c, Categoria |-> g,
     Laboratorio |-> l, Vendedor |-> v, Ventas |-> s, Unidades |-> u,
     Inventario |-> i]

(* df[col].min() / .max() *)
ColMin(rows, col) == SetMin({rows[i][col] : i \in 1..Len(rows)})

ColMax(rows, col) == SetMax({rows[i][col] : i \in 1..Len(rows)})

(* sorted(frame[col].unique()) *)
SortedUnique(rows, col) == SortedSeq({rows[i][col] : i \in 1..Len(rows)})

----------------------------------------------------------------------------
(* load_data *)

ErrVacio == [level |-> "error", text |-> "El archivo de datos esta vacio."]

ErrNoEncontrado == [level |-> "error", text |-> "No se encontro el archivo de datos."]

ErrCarga == [level |-> "error", text |-> "Error al cargar los datos"]

WarnRango == [level |-> "warning", text |-> "Por favor, selecciona un rango de fechas valido."]

WarnSinDatos == [level |-> "warning", text |-> "No hay datos disponibles para los filtros seleccionados."]

(* str.title().str.strip() on the encoded spelling *)
TitleStrip(r) == 2 * (r \div 2)

NormalizeRegion(rows) ==
    [i \in 1..Len(rows) |-> [rows[i] EXCEPT !.Region = TitleStrip(@)]]

(* load_data with the FileNotFoundError handler left out *)
load_data_one_handler(read) ==
    IF read.exc # NoExc THEN [ret |-> None, elements |-> <<ErrCarga>>]
    ELSE IF read.frame = <<>> THEN [ret |-> None, elements |-> <<ErrVacio>>]
    ELSE [ret |-> Some(NormalizeRegion(read.frame)), elements |-> <<>>]

(* The body of load_data over the outcome of pd.read_csv: what it returns and *)
(* the elements it emits.                                                     *)
load_data(read) ==
    IF read.exc = "FileNotFoundError" THEN [ret |-> None, elements |-> <<ErrNoEncontrado>>]
    ELSE IF read.exc # NoExc THEN [ret |-> None, elements |-> <<ErrCarga>>]
    ELSE IF read.frame = <<>> THEN [ret |-> None, elements |-> <<ErrVacio>>]
    ELSE [ret |-> Some(NormalizeRegion(read.frame)), elements |-> <<>>]

----------------------------------------------------------------------------
(* Sidebar filters *)

(* the date step with the test against end_date left out *)
DateStepOpenEnd(frame, range) ==
    IF Len(range) = 2
    THEN LET start_date == range[1]
             InRange(r) == r.Fecha >= start_date
         IN [frame |-> SelectSeq(frame, InRange), elements |-> <<>>]
    ELSE [frame |-> frame, elements |-> <<WarnRango>>]

(* the date step with < end_date for <= end_date *)
DateStepStrictEnd(frame, range) ==
    IF Len(range) = 2
    THEN LET start_date == range[1]
             end_date == range[2]
             InRange(r) == r.Fecha >= start_date /\ r.Fecha < end_date
         IN [frame |-> SelectSeq(frame, InRange), elements |-> <<>>]
    ELSE [frame |-> frame, elements |-> <<WarnRango>>]

(* lines 83-88: the frame after the date step and the warning it may emit *)
DateStep(frame, range) ==
    IF Len(range) = 2
    THEN LET start_date == range[1]
             end_date == range[2]
             InRange(r) == r.Fecha >= start_date /\ r.Fecha <= end_date
         IN [frame |-> SelectSeq(frame, InRange), elements |-> <<>>]
    ELSE [frame |-> frame, elements |-> <<WarnRango>>]

(* lines 91-98 *)
FilterOptions(frame) == [k \in Range(Keys) |-> SortedUnique(frame, k)]

(* the loop body without its "if values" *)
CatStepAlways(frame, key, values) ==
    LET IsIn(r) == r[key] \in Range(values) IN SelectSeq(frame, IsIn)

(* lines 113-114, one iteration of the loop *)
CatStep(frame, key, values) ==
    IF values # <<>>
    THEN LET IsIn(r) == r[key] \in Range(values) IN SelectSeq(frame, IsIn)
    ELSE frame

(* lines 112-114, the loop from the i-th key on *)
RECURSIVE CatLoop(_, _, _)
CatLoop(frame, selected, i) ==
    IF i > Len(Keys) THEN frame
    ELSE CatLoop(CatStep(frame, Keys[i], selected[Keys[i]]), selected, i + 1)

(* the emptiness test left out *)
IsEmptyNever(frame) == FALSE

(* line 117 *)
IsEmpty(frame) == frame = <<>>

----------------------------------------------------------------------------
(* Aggregation *)

(* frame.groupby(key, as_index=False)["Ventas"].sum(): one row per value of *)
(* key, in ascending order of the key                                       *)
GroupSum(frame, key) ==
    LET ks == SortedUnique(frame, key)
        Of(k) == LET Has(r) == r[key] = k IN SelectSeq(frame, Has)
    IN [i \in 1..Len(ks) |-> [key |-> ks[i], Ventas |-> SumCol(Of(ks[i]), "Ventas")]]

(* the insert placing x before the entries equal to it *)
RECURSIVE InsertDescBeforeTies(_, _)
InsertDescBeforeTies(x, s) ==
    IF s = <<>> THEN <<x>>
    ELSE IF Head(s).Ventas > x.Ventas THEN <<Head(s)>> \o InsertDescBeforeTies(x, Tail(s))
    ELSE <<x>> \o s

(* x placed behind every entry that is not smaller: a stable descending insert *)
RECURSIVE InsertDesc(_, _)
InsertDesc(x, s) ==
    IF s = <<>> THEN <<x>>
    ELSE IF Head(s).Ventas >= x.Ventas THEN <<Head(s)>> \o InsertDesc(x, Tail(s))
    ELSE <<x>> \o s

RECURSIVE SortDesc(_, _)
SortDesc(frame, acc) ==
    IF frame = <<>> THEN acc
    ELSE SortDesc(Tail(frame), InsertDesc(Head(frame), acc))

(* frame.nlargest(n, "Ventas"), keep="first" *)
NLargest(n, frame) ==
    LET sorted == SortDesc(frame, <<>>)
    IN SubSeq(sorted, 1, IF n < Len(sorted) THEN n ELSE Len(sorted))

(* x placed behind every entry that is not larger: a stable ascending insert *)
RECURSIVE InsertAsc(_, _)
InsertAsc(x, s) ==
    IF s = <<>> THEN <<x>>
    ELSE IF Head(s).Ventas <= x.Ventas THEN <<Head(s)>> \o InsertAsc(x, Tail(s))
    ELSE <<x>> \o s

RECURSIVE SortAsc(_, _)
SortAsc(frame, acc) ==
    IF frame = <<>> THEN acc
    ELSE SortAsc(Tail(frame), InsertAsc(Head(frame), acc))

TopCount == 10

(* the quotient without the guard on unidades_totales *)
PrecioUnitarioUnguarded(ventas_totales, unidades_totales) ==
    TrueDiv(ventas_totales, unidades_totales)

(* line 129 *)
PrecioUnitario(ventas_totales, unidades_totales) ==
    IF unidades_totales > 0 THEN TrueDiv(ventas_totales, unidades_totales)
    ELSE [num |-> 0, den |-> 1]

(* lines 126-130 *)
Metrics(frame) ==
    LET ventas_totales == SumCol(frame, "Ventas")
        unidades_totales == SumCol(frame, "Unidades")
        por_vendedor == GroupSum(frame, "Vendedor")
    IN [ventas_totales |-> ventas_totales,
        unidades_totales |-> unidades_totales,
        inventario_prom |-> TrueDiv(SumCol(frame, "Inventario"), Len(frame)),
        precio_unitario |-> PrecioUnitario(ventas_totales, unidades_totales),
        ventas_prom_vendedor |-> TrueDiv(SumCol(por_vendedor, "Ventas"), Len(por_vendedor))]

----------------------------------------------------------------------------
(* Calendar of the day ordinals, and resample *)

IsLeap(y) == (y % 4 = 0 /\ y % 100 # 0) \/ y % 400 = 0

DaysInMonth(y, m) ==
    IF m = 2 THEN (IF IsLeap(y) THEN 29 ELSE 28)
    ELSE IF m \in {4, 6, 9, 11} THEN 30 ELSE 31

(* the calendar date [y, m, d] of the ordinal that lies n days into [y, m, 1] *)
RECURSIVE DateFrom(_, _, _)
DateFrom(n, y, m) ==
    IF n < DaysInMonth(y, m) THEN [y |-> y, m |-> m, d |-> n + 1]
    ELSE IF m = 12 THEN DateFrom(n - DaysInMonth(y, m), y + 1, 1)
    ELSE DateFrom(n - DaysInMonth(y, m), y, m + 1)

DateOf(day) == DateFrom(day, 2024, 1)

(* days left from the ordinal's date to the last day of month m_end of its year *)
RECURSIVE DaysToEnd(_, _, _, _)
DaysToEnd(y, m, d, m_end) ==
    IF m = m_end THEN DaysInMonth(y, m) - d
    ELSE (DaysInMonth(y, m) - d) + DaysToEnd(y, m + 1, 0, m_end)

(* line 193-199 *)
period_code(periodo) ==
    CASE periodo = "Diario" -> "D"
      [] periodo = "Semanal" -> "W-MON"
      [] periodo = "Mensual" -> "M"
      [] periodo = "Trimestral" -> "Q"
      [] periodo = "Anual" -> "Y"

Periodos == {"Diario", "Semanal", "Mensual", "Trimestral", "Anual"}

(* bins labelled by the Monday that opens the Monday-to-Sunday week *)
BinLabelWeekStart(code, day) ==
    LET t == DateOf(day) IN
    CASE code = "D" -> day
      [] code = "W-MON" -> day - (day % 7)
      [] code = "M" -> day + DaysToEnd(t.y, t.m, t.d, t.m)
      [] code = "Q" -> day + DaysToEnd(t.y, t.m, t.d, 3 * (((t.m - 1) \div 3) + 1))
      [] code = "Y" -> day + DaysToEnd(t.y, t.m, t.d, 12)

(* The label pandas gives the resample bin that holds the day: the day itself *)
(* for "D"; for the anchored codes the bin is closed and labelled on its      *)
(* right edge: the Monday on or after the day for "W-MON", the last day of    *)
(* the month, quarter or year for "M", "Q", "Y".                              *)
BinLabel(code, day) ==
    LET t == DateOf(day) IN
    CASE code = "D" -> day
      [] code = "W-MON" -> day + ((7 - (day % 7)) % 7)
      [] code = "M" -> day + DaysToEnd(t.y, t.m, t.d, t.m)
      [] code = "Q" -> day + DaysToEnd(t.y, t.m, t.d, 3 * (((t.m - 1) \div 3) + 1))
      [] code = "Y" -> day + DaysToEnd(t.y, t.m, t.d, 12)

(* frame.set_index("Fecha").resample(code).agg(...).reset_index(): one row   *)
(* per bin from the first row's bin to the last row's, rows or no rows in it *)
Resample(frame, code) ==
    LET labels == IF frame = <<>> THEN <<>>
                  ELSE SortedSeq({BinLabel(code, d) :
                                  d \in ColMin(frame, "Fecha")..ColMax(frame, "Fecha")})
        Of(l) == LET Has(r) == BinLabel(code, r.Fecha) = l IN SelectSeq(frame, Has)
    IN [i \in 1..Len(labels) |->
          [Fecha |-> labels[i],
           Ventas |-> SumCol(Of(labels[i]), "Ventas"),
           Inventario |-> IF Of(labels[i]) = <<>> THEN [num |-> 0, den |-> 0]
                          ELSE TrueDiv(SumCol(Of(labels[i]), "Inventario"), Len(Of(labels[i]))),
           Unidades |-> SumCol(Of(labels[i]), "Unidades")]]

(* df_filtered.to_csv(index=False): the rows as tuples in column order *)
ToCsv(frame) ==
    [i \in 1..Len(frame) |->
        <<frame[i].Fecha, frame[i].Region, frame[i].Producto, frame[i].Canal,
          frame[i].Categoria, frame[i].Laboratorio, frame[i].Vendedor,
          frame[i].Ventas, frame[i].Unidades, frame[i].Inventario>>]

----------------------------------------------------------------------------
(* Inputs: what the CSV file may hold and what the widgets may return *)

(* Spellings of the region column in the file: 0 and 2 are canonical, 1 is a *)
(* variant of 0                                                              *)
RegionSpellings == {0, 1, 2}

FileDays == {1, 2}

(* The rows a file may hold: region 0 (in either spelling) sells products 1  *)
(* and 2, region 2 sells product 1; product 2 is handed out, no units billed *)
FileRows ==
    {Row(f, r, p, 1, 1, 1, 1, 100 * f, IF p = 1 THEN 10 ELSE 0, 5) :
        f \in FileDays, r \in RegionSpellings, p \in {1}}
    \cup {Row(f, 0, 2, 1, 1, 1, 1, 100 * f, 0, 5) : f \in FileDays}

Files == SeqsUpTo(FileRows, MaxRows) \ {<<>>}

(* what pd.read_csv does on each kind of source *)
ReadCsv(kind) ==
    CASE kind = "missing" -> {[exc |-> "FileNotFoundError", frame |-> <<>>]}
      [] kind = "malformed" -> {[exc |-> "Exception", frame |-> <<>>]}
      [] kind = "empty" -> {[exc |-> NoExc, frame |-> <<>>]}
      [] kind = "data" -> {[exc |-> NoExc, frame |-> f] : f \in Files}

(* st.sidebar.date_input with a range value: a tuple of up to two dates *)
(* between min_value and max_value                                       *)
DateInputs(min_date, max_date) == SeqsUpTo(min_date..max_date, 2)

(* st.sidebar.multiselect: any selection among the options, per key *)
Selections(filters) ==
    {[Region |-> SortedSeq(r), Producto |-> SortedSeq(p), Canal |-> SortedSeq(c),
      Categoria |-> SortedSeq(g), Laboratorio |-> SortedSeq(l),
      Vendedor |-> SortedSeq(v)] :
        r \in SUBSET Range(filters["Region"]),
        p \in SUBSET Range(filters["Producto"]),
        c \in SUBSET Range(filters["Canal"]),
        g \in SUBSET Range(filters["Categoria"]),
        l \in SUBSET Range(filters["Laboratorio"]),
        v \in SUBSET Range(filters["Vendedor"])}

----------------------------------------------------------------------------
(* The script run *)

Init ==
    /\ source_kind \in {"missing", "malformed", "empty", "data"}
    /\ cache = None
    /\ df = None
    /\ messages = <<>>
    /\ date_range = None
    /\ selected_filters = None
    /\ df_filtered = None
    /\ kpis = None
    /\ tabs = None
    /\ rank = [n |-> 0, frame |-> <<>>, top |-> <<>>]
    /\ pc = "start"

(* lines 48-52: the value load_data hands back is bound to df, its elements *)
(* are shown, and the run stops when there is no frame                      *)
Loaded(res) ==
    /\ df' = res.ret
    /\ messages' = res.elements
    /\ pc' = IF res.ret = None THEN "stopped" ELSE "sidebar"
    /\ UNCHANGED <<source_kind, date_range, selected_filters, df_filtered, kpis,
                   tabs, rank>>

(* load_data() on a cache miss: the body runs and its result is memoised *)
LoadData ==
    /\ pc = "start"
    /\ cache = None
    /\ \E read \in ReadCsv(source_kind) :
          /\ cache' = Some(load_data(read))
          /\ Loaded(load_data(read))

(* load_data() on a cache hit: the memoised value and elements are replayed *)
LoadCached ==
    /\ pc = "start"
    /\ cache # None
    /\ cache' = cache
    /\ Loaded(Val(cache))

(* the sidebar filtering df itself instead of a copy *)
SidebarInPlace ==
    /\ pc = "sidebar"
    /\ LET min_date == ColMin(Val(df), "Fecha")
           max_date == ColMax(Val(df), "Fecha")
       IN \E range \in DateInputs(min_date, max_date) :
            LET step == DateStep(Val(df), range)
                filters == FilterOptions(step.frame)
            IN \E selected \in Selections(filters) :
                 LET out == CatLoop(step.frame, selected, 1) IN
                 /\ date_range' = Some(range)
                 /\ selected_filters' = Some(selected)
                 /\ df' = Some(out)
                 /\ df_filtered' = Some(out)
                 /\ messages' = messages \o step.elements
                                  \o (IF IsEmpty(out) THEN <<WarnSinDatos>> ELSE <<>>)
                 /\ pc' = IF IsEmpty(out) THEN "stopped" ELSE "kpis"
    /\ UNCHANGED <<source_kind, cache, kpis, tabs, rank>>

(* lines 74-119 *)
Sidebar ==
    /\ pc = "sidebar"
    /\ LET min_date == ColMin(Val(df), "Fecha")
           max_date == ColMax(Val(df), "Fecha")
       IN \E range \in DateInputs(min_date, max_date) :
            LET step == DateStep(Val(df), range)
                filters == FilterOptions(step.frame)
            IN \E selected \in Selections(filters) :
                 LET out == CatLoop(step.frame, selected, 1) IN
                 /\ date_range' = Some(range)
                 /\ selected_filters' = Some(selected)
                 /\ df_filtered' = Some(out)
                 /\ messages' = messages \o step.elements
                                  \o (IF IsEmpty(out) THEN <<WarnSinDatos>> ELSE <<>>)
                 /\ pc' = IF IsEmpty(out) THEN "stopped" ELSE "kpis"
    /\ UNCHANGED <<source_kind, cache, df, kpis, tabs, rank>>

(* lines 122-137 *)
Kpis ==
    /\ pc = "kpis"
    /\ kpis' = Some(Metrics(Val(df_filtered)))
    /\ pc' = "tabs"
    /\ UNCHANGED <<source_kind, cache, df, messages, date_range, selected_filters,
                   df_filtered, tabs, rank>>

(* lines 140-372 *)
Tabs ==
    /\ pc = "tabs"
    /\ \E periodo \in Periodos :
         LET view == Val(df_filtered) IN
         tabs' = Some([top_productos |-> NLargest(TopCount, GroupSum(view, "Producto")),
                       ventas_cat |-> GroupSum(view, "Categoria"),
                       periodo |-> periodo,
                       df_trend |-> Resample(view, period_code(periodo)),
                       df_canal |-> GroupSum(view, "Canal"),
                       top_vendedores |-> NLargest(TopCount, GroupSum(view, "Vendedor")),
                       ventas_ciudad |-> SortAsc(GroupSum(view, "Region"), <<>>),
                       csv |-> ToCsv(view)])
    /\ pc' = "done"
    /\ UNCHANGED <<source_kind, cache, df, messages, date_range, selected_filters,
                   df_filtered, kpis, rank>>

(* any interaction, or a reload of the page: the script runs again from the top *)
Rerun ==
    /\ pc \in {"done", "stopped"}
    /\ pc' = "start"
    /\ df' = None
    /\ messages' = <<>>
    /\ date_range' = None
    /\ selected_filters' = None
    /\ df_filtered' = None
    /\ kpis' = None
    /\ tabs' = None
    /\ UNCHANGED <<source_kind, cache, rank>>

Next == LoadData \/ LoadCached \/ Sidebar \/ Kpis \/ Tabs \/ Rerun

Spec == Init /\ [][Next]_vars

----------------------------------------------------------------------------
(* The KPI step, the tabs and nlargest on their own: the run is taken up    *)
(* where the sidebar, left at its defaults, has handed on the whole frame   *)

AfterDefaultSidebar(frame) ==
    /\ source_kind = "data"
    /\ cache = Some([ret |-> Some(frame), elements |-> <<>>])
    /\ df = Some(frame)
    /\ messages = <<>>
    /\ date_range = Some(<<ColMin(frame, "Fecha"), ColMax(frame, "Fecha")>>)
    /\ selected_filters = Some(FilterOptions(frame))
    /\ df_filtered = Some(frame)
    /\ tabs = None
    /\ rank = [n |-> 0, frame |-> <<>>, top |-> <<>>]

KpiRows ==
    {Row(1, 0, 1, 1, 1, 1, 1, s, u, 5) : s \in {0, 100, 200, 300}, u \in {0, 10, 20}}

KpiViews == SeqsUpTo(KpiRows, MaxKpiRows) \ {<<>>}

InitKpi ==
    /\ \E view \in KpiViews : AfterDefaultSidebar(view)
    /\ kpis = None
    /\ pc = "kpis"

SpecKpi == InitKpi /\ [][Kpis]_vars

TrendRows ==
    {Row(f, 0, 1, 1, 1, 1, 1, s, 10, 5) :
        f \in TrendStart..(TrendStart + MaxSpan), s \in {100, 200}}

TrendViews == SeqsUpTo(TrendRows, MaxTrendRows) \ {<<>>}

InitTrend ==
    /\ \E view \in TrendViews :
          /\ AfterDefaultSidebar(view)
          /\ kpis = Some(Metrics(view))
    /\ pc = "tabs"

SpecTrend == InitTrend /\ [][Tabs]_vars

(* frames as groupby().sum() leaves them: keys ascending, one row each *)
GroupedFrames ==
    UNION {[1..g -> {0, 100, 200}] : g \in 1..MaxGroups}

AsGrouped(sums) == [i \in 1..Len(sums) |-> [key |-> i, Ventas |-> sums[i]]]

InitRank ==
    /\ source_kind = "data"
    /\ cache = None
    /\ df = None
    /\ messages = <<>>
    /\ date_range = None
    /\ selected_filters = None
    /\ df_filtered = None
    /\ kpis = None
    /\ tabs = None
    /\ \E sums \in GroupedFrames, n \in 0..MaxN :
          rank = [n |-> n, frame |-> AsGrouped(sums), top |-> <<>>]
    /\ pc = "rank"

(* one call frame.nlargest(n, "Ventas") *)
Rank ==
    /\ pc = "rank"
    /\ rank' = [rank EXCEPT !.top = NLargest(rank.n, rank.frame)]
    /\ pc' = "ranked"
    /\ UNCHANGED <<source_kind, cache, df, messages, date_range, selected_filters,
                   df_filtered, kpis, tabs>>

SpecRank == InitRank /\ [][Rank]_vars

----------------------------------------------------------------------------
(* Vocabulary of the properties *)

(* a is b with some rows left out, the others in b's order *)
RECURSIVE IsSubSeq(_, _)
IsSubSeq(a, b) ==
    IF a = <<>> THEN TRUE
    ELSE IF b = <<>> THEN FALSE
    ELSE IF Head(a) = Head(b) THEN IsSubSeq(Tail(a), Tail(b))
    ELSE IsSubSeq(a, Tail(b))

KeySet == {"Region", "Producto", "Canal", "Categoria", "Laboratorio", "Vendedor"}

(* the row lies in the interval, when the widget gave an interval *)
DateOk(r, range) == Len(range) = 2 => (range[1] <= r.Fecha /\ r.Fecha <= range[2])

(* the row's value for the key is selected, when anything is selected *)
KeyOk(r, selected, k) == selected[k] # <<>> => \E i \in 1..Len(selected[k]) : selected[k][i] = r[k]

SidebarDone == df_filtered # None

ErrorElements == {ErrVacio, ErrNoEncontrado, ErrCarga}

----------------------------------------------------------------------------
(* C1: the filtered frame holds only rows of the loaded frame, in its order, *)
(* and every row of it lies in the date interval (when the widget gave two   *)
(* endpoints) and, for each of the six keys with a non-empty selection, has  *)
(* its value among the selected ones.                                        *)
FilterSoundness ==
    SidebarDone =>
        LET view == Val(df_filtered)
            range == Val(date_range)
            selected == Val(selected_filters)
        IN /\ IsSubSeq(view, Val(df))
           /\ \A i \in 1..Len(view) :
                 /\ DateOk(view[i], range)
                 /\ \A k \in KeySet : KeyOk(view[i], selected, k)

(* a pass whose interval and whose region selection both dropped rows *)
FilterSoundnessWitness ==
    /\ SidebarDone
    /\ Len(Val(date_range)) = 2
    /\ Val(date_range)[1] = Val(date_range)[2]
    /\ Val(selected_filters)["Region"] = <<0>>
    /\ Len(Val(df)) = 2
    /\ Len(Val(df_filtered)) = 1
    /\ \E i \in 1..2 : Val(df)[i].Region = 2

(* C2: when the date input is not a valid interval (one endpoint or none, or *)
(* two with the end before the start) the sidebar warns about the range and  *)
(* lets every row through the date step, so that the filtered frame holds    *)
(* exactly the rows the categorical selections keep.                         *)
InvalidRangeFallback ==
    SidebarDone =>
        LET range == Val(date_range)
            selected == Val(selected_filters)
            invalid == IF Len(range) = 2 THEN range[2] < range[1] ELSE TRUE
            Pass(r) == \A k \in KeySet : KeyOk(r, selected, k)
        IN invalid =>
              /\ \E i \in 1..Len(messages) : messages[i] = WarnRango
              /\ Val(df_filtered) = SelectSeq(Val(df), Pass)

(* C3: a key whose selection is empty restricts nothing: the filtered frame  *)
(* holds exactly the rows that pass the date step and the other five keys.   *)
EmptySelectionUnrestricted ==
    SidebarDone =>
        LET range == Val(date_range)
            selected == Val(selected_filters)
        IN \A k \in KeySet :
              selected[k] = <<>> =>
                 LET Pass(r) == /\ DateOk(r, range)
                                /\ \A j \in KeySet \ {k} : KeyOk(r, selected, j)
                 IN Val(df_filtered) = SelectSeq(Val(df), Pass)

(* nothing selected for the region, two regions on file, both rows kept *)
EmptySelectionWitness ==
    /\ SidebarDone
    /\ Val(selected_filters)["Region"] = <<>>
    /\ Val(selected_filters)["Producto"] = <<1>>
    /\ Len(Val(df_filtered)) = 2
    /\ Val(df_filtered)[1].Region # Val(df_filtered)[2].Region

(* C4: a run whose filtered frame is empty shows the "no data" warning and   *)
(* stops: it computes no metric and builds no tab frame or export, and no    *)
(* step of the run is left to take; the warning is none of the loader's      *)
(* error elements, and a run stopped by the loader does not show it.         *)
EmptyResultStops ==
    /\ WarnSinDatos \notin ErrorElements
    /\ (SidebarDone /\ Val(df_filtered) = <<>>) =>
          /\ pc = "stopped"
          /\ messages[Len(messages)] = WarnSinDatos
          /\ kpis = None
          /\ tabs = None
          /\ \A i \in 1..Len(messages) : messages[i] \notin ErrorElements
          /\ ~ENABLED (Kpis \/ Tabs)
    /\ (kpis # None \/ tabs # None) => (SidebarDone /\ Val(df_filtered) # <<>>)
    /\ (pc = "stopped" /\ df = None) =>
          \A i \in 1..Len(messages) : messages[i] # WarnSinDatos

(* a run stopped on an empty frame although the file has rows *)
EmptyResultWitness ==
    /\ SidebarDone
    /\ Val(df_filtered) = <<>>
    /\ Len(Val(df)) = 2
    /\ pc = "stopped"

UnitPrice ==
    kpis # None =>
        LET view == Val(df_filtered)
            ventas == SumCol(view, "Ventas")
            unidades == SumCol(view, "Unidades")
            precio == Val(kpis).precio_unitario
        IN /\ precio.den > 0
           /\ unidades > 0 => precio.num * unidades = ventas * precio.den
           /\ unidades = 0 => precio.num = 0

(* sales of 300 on no units: the price is 0 *)
UnitPriceWitness ==
    /\ kpis # None
    /\ SumCol(Val(df_filtered), "Unidades") = 0
    /\ SumCol(Val(df_filtered), "Ventas") = 300
    /\ Val(kpis).precio_unitario = [num |-> 0, den |-> 1]

RankDone == pc = "ranked"

(* C7 as stated: the ranking has min(n, groups) rows, each a row of the      *)
(* grouped frame, no key twice, and its values go strictly down.             *)
TopNStrictlyDescending ==
    RankDone =>
        LET top == rank.top
            frame == rank.frame
        IN /\ Len(top) = (IF rank.n < Len(frame) THEN rank.n ELSE Len(frame))
           /\ \A i \in 1..Len(top) : \E j \in 1..Len(frame) : top[i] = frame[j]
           /\ \A i, j \in 1..Len(top) : i < j => top[i].key # top[j].key
           /\ \A i, j \in 1..Len(top) : i < j => top[i].Ventas > top[j].Ventas

(* C7 amended: the ranking has min(n, groups) rows, each a row of the        *)
(* grouped frame, no key twice; its values never go up, and rows of equal    *)
(* value stand in ascending order of their key.                              *)
TopNDescendingTiesByKey ==
    RankDone =>
        LET top == rank.top
            frame == rank.frame
        IN /\ Len(top) = (IF rank.n < Len(frame) THEN rank.n ELSE Len(frame))
           /\ \A i \in 1..Len(top) : \E j \in 1..Len(frame) : top[i] = frame[j]
           /\ \A i, j \in 1..Len(top) : i < j => top[i].key # top[j].key
           /\ \A i, j \in 1..Len(top) :
                 i < j => \/ top[i].Ventas > top[j].Ventas
                          \/ (top[i].Ventas = top[j].Ventas /\ top[i].key < top[j].key)

(* three groups, the last two tied above the first, the top two asked for *)
TopNWitness ==
    /\ RankDone
    /\ rank.n = 2
    /\ rank.frame = AsGrouped(<<100, 200, 200>>)
    /\ rank.top = <<[key |-> 2, Ventas |-> 200], [key |-> 3, Ventas |-> 200]>>

(* C8: with the date input left at (min_date, max_date) and every option of  *)
(* every key selected, the filtered frame is the loaded frame, row for row.  *)
DefaultFilterIdentity ==
    SidebarDone =>
        LET frame == Val(df) IN
        (/\ Val(date_range) = <<ColMin(frame, "Fecha"), ColMax(frame, "Fecha")>>
         /\ \A k \in KeySet : Val(selected_filters)[k] = SortedUnique(frame, k))
        => Val(df_filtered) = frame

(* the defaults on a file of two days, two regions, the later day first *)
DefaultFilterWitness ==
    /\ SidebarDone
    /\ Len(Val(df)) = 2
    /\ Val(df)[1].Fecha > Val(df)[2].Fecha
    /\ Val(df)[1].Region # Val(df)[2].Region
    /\ Val(date_range) = <<ColMin(Val(df), "Fecha"), ColMax(Val(df), "Fecha")>>
    /\ \A k \in KeySet : Val(selected_filters)[k] = SortedUnique(Val(df), k)
    /\ Val(df_filtered) = Val(df)

(* C9: once loaded, the memoised frame never changes and the df of every     *)
(* later step of every run is that frame; the filtered frame and the metrics *)
(* of a run are those of that frame under the run's widget values.           *)
DatasetImmutable ==
    [][cache # None =>
          /\ cache' = cache
          /\ df' # None => df' = Val(cache).ret
          /\ df_filtered' # None =>
                LET Pass(r) == /\ DateOk(r, Val(date_range'))
                               /\ \A k \in KeySet : KeyOk(r, Val(selected_filters'), k)
                IN Val(df_filtered') = SelectSeq(Val(Val(cache).ret), Pass)
          /\ kpis' # None =>
                Val(kpis').ventas_totales = SumCol(Val(df_filtered'), "Ventas")]_vars

(* a run that dropped a row of a two-row file, after the frame was loaded *)
DatasetImmutableWitness ==
    /\ tabs # None
    /\ Len(Val(df)) = 2
    /\ Len(Val(df_filtered)) = 1
    /\ df = Val(cache).ret

(* Two days lie in the same calendar period of the code.  A week runs from   *)
(* Tuesday to Monday.                                                        *)
SamePeriod(code, a, b) ==
    CASE code = "D" -> a = b
      [] code = "W-MON" -> (a + 6) \div 7 = (b + 6) \div 7
      [] code = "M" -> DateOf(a).y = DateOf(b).y /\ DateOf(a).m = DateOf(b).m
      [] code = "Q" -> /\ DateOf(a).y = DateOf(b).y
                       /\ (DateOf(a).m - 1) \div 3 = (DateOf(b).m - 1) \div 3
      [] code = "Y" -> DateOf(a).y = DateOf(b).y

(* Two days lie in the same week running from Monday to Sunday *)
SameMondayWeek(a, b) == a \div 7 = b \div 7

TrendDone == tabs # None

(* C10 as stated, for the weekly code: the rows of one Monday-to-Sunday week *)
(* are counted together, so for every row some bucket holds the sales and    *)
(* units summed over the rows of the row's Monday-to-Sunday week.            *)
WeeklyBucketsMondayToSunday ==
    (TrendDone /\ Val(tabs).periodo = "Semanal") =>
        LET view == Val(df_filtered)
            trend == Val(tabs).df_trend
        IN \A n \in 1..Len(view) :
              LET InWeek(r) == SameMondayWeek(r.Fecha, view[n].Fecha)
                  week == SelectSeq(view, InWeek)
              IN \E i \in 1..Len(trend) :
                    /\ trend[i].Ventas = SumCol(week, "Ventas")
                    /\ trend[i].Unidades = SumCol(week, "Unidades")

(* C10 amended: for each code the buckets come in ascending order of their   *)
(* date, every row lies in the period of exactly one bucket, and a bucket's  *)
(* sales and units are the sums over the rows of its period: the day, the    *)
(* month, the quarter, the year, and for the weekly code the week from       *)
(* Tuesday to Monday, which the bucket is dated with.                        *)
BucketsByPeriod ==
    TrendDone =>
        LET view == Val(df_filtered)
            trend == Val(tabs).df_trend
            code == period_code(Val(tabs).periodo)
        IN /\ \A i, j \in 1..Len(trend) : i < j => trend[i].Fecha < trend[j].Fecha
           /\ \A n \in 1..Len(view) :
                 Cardinality({i \in 1..Len(trend) :
                                 SamePeriod(code, trend[i].Fecha, view[n].Fecha)}) = 1
           /\ \A i \in 1..Len(trend) :
                 LET InPeriod(r) == SamePeriod(code, trend[i].Fecha, r.Fecha)
                     rows == SelectSeq(view, InPeriod)
                 IN /\ trend[i].Ventas = SumCol(rows, "Ventas")
                    /\ trend[i].Unidades = SumCol(rows, "Unidades")
                    /\ code = "W-MON" => trend[i].Fecha % 7 = 0

(* weekly buckets of a Monday and the Tuesday after it: two buckets *)
BucketsWitness ==
    /\ TrendDone
    /\ Val(tabs).periodo = "Semanal"
    /\ Len(Val(df_filtered)) = 2
    /\ Val(df_filtered)[1].Fecha % 7 = 0
    /\ Val(df_filtered)[2].Fecha = Val(df_filtered)[1].Fecha + 1
    /\ Len(Val(tabs).df_trend) = 2

====
